---- MODULE Spec2Model ----
\* Model of pkg/apiserver/resthandler.go: RESTHandler.ServeHTTP, handleRESTStorage,
\* setSelfLink / setSelfLinkAddName, curry, createOperation and finishReq, together
\* with the operation registry, backend, codec, admission gate and self-linker the
\* handler calls.  One behaviour is one request; a worker runs the handler while the
\* registry delivers the backend's result concurrently.
EXTENDS Integers, Sequences, FiniteSets, TLC

\* ------------------------------------------------------------------ bounds
MaxItems == 2          \* longest collection returned by a backend
MaxParts == 3          \* longest requestInfo.Parts

\* ------------------------------------------------------- program constants
StatusOK == 200
StatusCreated == 201
StatusAccepted == 202
StatusNotFound == 404
StatusMethodNotAllowed == 405

\* ------------------------------------------------------------- value sets
Methods == {"GET", "POST", "PUT", "DELETE", "PATCH"}
Capabilities == {"list", "get", "create", "update", "delete"}
Names == {"a", "b"}
Namespaces == {"", "n1"}
EmbeddedCodes == {0, 202, 409}
ErrCodes == {400, 409, 500}
canonicalPrefix == <<"api", "v1">>

\* a URL: path segments, query (set of <<key, value>>), fragment
NoLink == [path |-> <<>>, query |-> {}, fragment |-> "", set |-> FALSE]
NoErr == [reason |-> "", code |-> 0]
NoObj == [kind |-> "none", name |-> "", namespace |-> "", code |-> 0,
          selfLink |-> NoLink, items |-> <<>>]

Member(n, ns) == [kind |-> "item", name |-> n, namespace |-> ns, code |-> 0,
                  selfLink |-> NoLink, items |-> <<>>]
MemberObjects == {Member(n, ns) : n \in Names, ns \in Namespaces}

RECURSIVE SeqsUpTo(_, _)
SeqsUpTo(S, n) ==
    IF n = 0 THEN {<<>>}
    ELSE LET shorter == SeqsUpTo(S, n - 1)
         IN  shorter \cup {Append(s, x) : s \in {t \in shorter : Len(t) = n - 1}, x \in S}

ItemObjects == MemberObjects
StatusObjects == {[kind |-> "status", name |-> "", namespace |-> "", code |-> c,
                   selfLink |-> NoLink, items |-> <<>>] : c \in EmbeddedCodes}
ListObjects == {[kind |-> "list", name |-> "", namespace |-> ns, code |-> 0,
                 selfLink |-> NoLink, items |-> its] :
                    ns \in Namespaces, its \in SeqsUpTo(MemberObjects, MaxItems)}
\* what a backend capability may hand back
BackendObjects == ItemObjects \cup StatusObjects \cup ListObjects

\* the operation registry's placeholder for an unfinished operation
Placeholder == [kind |-> "working", name |-> "", namespace |-> "", code |-> 0,
                selfLink |-> NoLink, items |-> <<>>]

\* ------------------------------------------------------------ pure helpers
\* path.Join: concatenate, then Clean (empty elements vanish)
RECURSIVE Clean(_)
Clean(p) ==
    IF p = <<>> THEN <<>>
    ELSE IF Head(p) = "" THEN Clean(Tail(p))
    ELSE <<Head(p)>> \o Clean(Tail(p))

Join2(a, b) == Clean(a \o b)
Join3(a, b, c) == Clean(a \o b \o c)

\* splitPath(req.URL.Path)
splitPath(p) == Clean(p)

\* runtime.IsListType
IsListType(obj) == obj.kind = "list"

\* where the self-linker / list accessors may fail during one rewrite:
\* at = 0 is the top-level object, at = i the i-th member
NoFail == [at |-> 0, kind |-> "none"]
FailPoints(obj) ==
    {NoFail}
    \cup {[at |-> 0, kind |-> k] : k \in {"ns", "set"}}
    \cup (IF IsListType(obj)
          THEN {[at |-> 0, kind |-> k] : k \in {"extract", "setlist"}}
               \cup {[at |-> i, kind |-> k] :
                        i \in 1..Len(obj.items), k \in {"name", "ns", "set"}}
          ELSE {})
AddNameFailPoints == {NoFail} \cup {[at |-> 0, kind |-> k] : k \in {"name", "ns", "set"}}

\* ------------------------------------------------------ self-link rewriting
\* NamespaceQuery without the test of the first path segment
NamespaceQuery_ignoresNsPath(namespace, rq) ==
    IF Len(namespace) > 0 THEN {<<"namespace", namespace>>} ELSE {}

\* the namespace query parameter of both rewrite functions
NamespaceQuery(namespace, rq) ==
    IF Len(namespace) > 0 /\ splitPath(rq.url.path)[1] # "ns"
    THEN {<<"namespace", namespace>>}
    ELSE {}

LinkResult(o, e, l) == [obj |-> o, err |-> e, log |-> l]

\* setSelfLinkAddName(obj, req); fk names the accessor that fails, if any
setSelfLinkAddName(obj, rq, fk) ==
    IF fk = "name" THEN LinkResult(obj, TRUE, <<>>)
    ELSE IF fk = "ns" THEN LinkResult(obj, TRUE, <<>>)
    ELSE LET newURL == [path |-> Join3(canonicalPrefix, rq.url.path, <<obj.name>>),
                        query |-> NamespaceQuery(obj.namespace, rq),
                        fragment |-> "", set |-> TRUE]
         IN  IF fk = "set" THEN LinkResult(obj, TRUE, <<>>)
             ELSE LinkResult([obj EXCEPT !.selfLink = newURL], FALSE,
                             <<[target |-> 0, url |-> newURL]>>)

\* RewriteItems stopping one member early
RECURSIVE RewriteItems_stopEarly(_, _, _, _, _)
RewriteItems_stopEarly(items, i, rq, fail, log) ==
    IF i >= Len(items) THEN [items |-> items, err |-> FALSE, log |-> log]
    ELSE LET r == setSelfLinkAddName(items[i], rq,
                                     IF fail.at = i THEN fail.kind ELSE "none")
         IN  IF r.err THEN [items |-> items, err |-> TRUE, log |-> log]
             ELSE RewriteItems_stopEarly([items EXCEPT ![i] = r.obj], i + 1, rq, fail,
                                         log \o <<[target |-> i, url |-> r.log[1].url]>>)

\* the loop of setSelfLink over the extracted members, from index i on
RECURSIVE RewriteItems(_, _, _, _, _)
RewriteItems(items, i, rq, fail, log) ==
    IF i > Len(items) THEN [items |-> items, err |-> FALSE, log |-> log]
    ELSE LET r == setSelfLinkAddName(items[i], rq,
                                     IF fail.at = i THEN fail.kind ELSE "none")
         IN  IF r.err THEN [items |-> items, err |-> TRUE, log |-> log]
             ELSE RewriteItems([items EXCEPT ![i] = r.obj], i + 1, rq, fail,
                               log \o <<[target |-> i, url |-> r.log[1].url]>>)

\* runtime.ExtractList / runtime.SetList: the ordered member sequence, read and
\* written back
ExtractList(obj) == obj.items
SetList(obj, items) == [obj EXCEPT !.items = items]

\* setSelfLink writing the members back without the last one
setSelfLink_dropsLast(obj, rq, fail) ==
    IF fail = [at |-> 0, kind |-> "ns"] THEN LinkResult(obj, TRUE, <<>>)
    ELSE LET newURL == [path |-> Join2(canonicalPrefix, rq.url.path),
                        query |-> NamespaceQuery(obj.namespace, rq),
                        fragment |-> "", set |-> TRUE]
             obj1 == [obj EXCEPT !.selfLink = newURL]
             log1 == <<[target |-> 0, url |-> newURL]>>
         IN  IF fail = [at |-> 0, kind |-> "set"] THEN LinkResult(obj, TRUE, <<>>)
             ELSE IF ~IsListType(obj1) THEN LinkResult(obj1, FALSE, log1)
             ELSE IF fail = [at |-> 0, kind |-> "extract"]
                  THEN LinkResult(obj1, TRUE, log1)
             ELSE LET loop == RewriteItems(ExtractList(obj1), 1, rq, fail, <<>>)
                  IN  IF loop.err THEN LinkResult(obj1, TRUE, log1 \o loop.log)
                      ELSE IF fail = [at |-> 0, kind |-> "setlist"]
                           THEN LinkResult(obj1, TRUE, log1 \o loop.log)
                      ELSE LinkResult(SetList(obj1, SubSeq(loop.items, 1,
                                                           Len(loop.items) - 1)),
                                      FALSE, log1 \o loop.log)

\* setSelfLink(obj, req)
setSelfLink(obj, rq, fail) ==
    IF fail = [at |-> 0, kind |-> "ns"] THEN LinkResult(obj, TRUE, <<>>)
    ELSE LET newURL == [path |-> Join2(canonicalPrefix, rq.url.path),
                        query |-> NamespaceQuery(obj.namespace, rq),
                        fragment |-> "", set |-> TRUE]
             obj1 == [obj EXCEPT !.selfLink = newURL]
             log1 == <<[target |-> 0, url |-> newURL]>>
         IN  IF fail = [at |-> 0, kind |-> "set"] THEN LinkResult(obj, TRUE, <<>>)
             ELSE IF ~IsListType(obj1) THEN LinkResult(obj1, FALSE, log1)
             ELSE IF fail = [at |-> 0, kind |-> "extract"]
                  THEN LinkResult(obj1, TRUE, log1)
             ELSE LET loop == RewriteItems(ExtractList(obj1), 1, rq, fail, <<>>)
                  IN  IF loop.err THEN LinkResult(obj1, TRUE, log1 \o loop.log)
                      ELSE IF fail = [at |-> 0, kind |-> "setlist"]
                           THEN LinkResult(obj1, TRUE, log1 \o loop.log)
                      ELSE LinkResult(SetList(obj1, loop.items), FALSE,
                                      log1 \o loop.log)

\* curry(f, req): the operation hook; the error of f is logged and dropped
curry(f, obj, rq, fail) ==
    CASE f = "setSelfLinkAddName" -> setSelfLinkAddName(obj, rq, fail.kind)
      [] f = "setSelfLink" -> setSelfLink(obj, rq, fail)
      [] OTHER -> LinkResult(obj, FALSE, <<>>)

HookFailPoints(f, obj) ==
    CASE f = "setSelfLinkAddName" -> AddNameFailPoints
      [] f = "setSelfLink" -> FailPoints(obj)
      [] OTHER -> {NoFail}

\* finishStatus answering ok when the operation is not complete
finishStatus_timeoutOK(complete, created, object) ==
    IF object.kind = "status" /\ object.code # 0 THEN object.code
    ELSE IF created THEN StatusCreated ELSE StatusOK

\* finishStatus with result.Created tested after the embedded code
finishStatus_createdWins(complete, created, object) ==
    IF complete
    THEN IF created THEN StatusCreated
         ELSE IF object.kind = "status" /\ object.code # 0 THEN object.code
         ELSE StatusOK
    ELSE StatusAccepted

\* --------------------------------------------------------- finishReq status
\* lines 318-331: the status of the response, from what StatusOrResult returned
finishStatus(complete, created, object) ==
    IF complete
    THEN IF object.kind = "status" /\ object.code # 0 THEN object.code
         ELSE IF created THEN StatusCreated ELSE StatusOK
    ELSE StatusAccepted

\* ------------------------------------------------------------ routing table
\* RouteAction with the arity test of PUT dropped
RouteAction_putAnyArity(method, n) ==
    CASE method = "GET" /\ n = 1 -> "list"
      [] method = "GET" /\ n = 2 -> "get"
      [] method = "POST" /\ n = 1 -> "create"
      [] method = "DELETE" /\ n = 2 -> "delete"
      [] method = "PUT" -> "update"
      [] OTHER -> "none"

RouteAction(method, n) ==
    CASE method = "GET" /\ n = 1 -> "list"
      [] method = "GET" /\ n = 2 -> "get"
      [] method = "POST" /\ n = 1 -> "create"
      [] method = "DELETE" /\ n = 2 -> "delete"
      [] method = "PUT" /\ n = 2 -> "update"
      [] OTHER -> "none"

\* the action name handleRESTStorage puts into NewMethodNotSupported
NotSupportedName(a) == IF a = "update" THEN "create" ELSE a

\* HookOf with the update hook also handed to delete
HookOf_deleteToo(a) ==
    CASE a = "create" -> "setSelfLinkAddName"
      [] a \in {"update", "delete"} -> "setSelfLink"
      [] OTHER -> "none"

\* HookOf with the hooks of create and update exchanged
HookOf_swapped(a) ==
    CASE a = "create" -> "setSelfLink"
      [] a = "update" -> "setSelfLinkAddName"
      [] OTHER -> "none"

\* the hook handleRESTStorage hands to createOperation
HookOf(a) ==
    CASE a = "create" -> "setSelfLinkAddName"
      [] a = "update" -> "setSelfLink"
      [] OTHER -> "none"

\* BackendMethod with update calling the backend's Create
BackendMethod_updateCreates(a) ==
    CASE a = "list" -> "List"
      [] a = "get" -> "Get"
      [] a \in {"create", "update"} -> "Create"
      [] OTHER -> "Delete"

BackendMethod(a) ==
    CASE a = "list" -> "List"
      [] a = "get" -> "Get"
      [] a = "create" -> "Create"
      [] a = "update" -> "Update"
      [] OTHER -> "Delete"

BackendMethods == {"List", "Get", "Create", "Update", "Delete"}

\* -------------------------------------------------------------------- state
VARIABLES
    req,        \* the request: method, Parts, URL (path, query, fragment)
    storage,    \* h.storage[resource]: found or not, and the capabilities it has
    pc,         \* where the request's worker stands
    action,     \* the routed action, "none" before routing
    obj,        \* the handler's object: decoded body, or the List/Get answer
    out,        \* the backend's result: "none", "pending", "received", "delivered"
    op,         \* the operation handle
    waited,     \* how op.WaitFor returned ("no", "notified", "expired") and
                \* whether the operation had finished by then
    polled,     \* what op.StatusOrResult returned to finishReq
    written,    \* the responses written to w, in order
    httpCode,   \* the status ServeHTTP hands to monitor (0: none yet)
    calls,      \* external calls made by the worker, in order
    linkLog,    \* successful selfLinker.SetSelfLink calls: target and URL
    backendObj, \* the object as the backend produced it, before any rewrite
    glog        \* number of self-link errors logged by the hook

vars == <<req, storage, pc, action, obj, out, op, waited, polled, written,
          httpCode, calls, linkLog, backendObj, glog>>

Part(i) == IF i = 1 THEN "foo" ELSE "bar"
PartsOf(n) == [i \in 1..n |-> Part(i)]
SelectorValues == {"good", "bad"}

RequestOf(m, n, nsp, sel) ==
    [method |-> m, parts |-> PartsOf(n),
     url |-> [path |-> (IF nsp THEN <<"ns", "n1">> ELSE <<>>) \o PartsOf(n),
              query |-> {<<"timeout", "1s">>, <<"labels", sel[1]>>, <<"fields", sel[2]>>},
              fragment |-> "top"]]

\* only a GET carries selectors worth varying: no other method reads them
SelectorsFor(m) ==
    IF m = "GET" THEN SelectorValues \X SelectorValues ELSE {<<"good", "good">>}

Requests ==
    UNION {{RequestOf(m, n, nsp, sel) :
                n \in 1..MaxParts, nsp \in BOOLEAN, sel \in SelectorsFor(m)} :
           m \in Methods}

Storages ==
    {[found |-> FALSE, caps |-> {}]}
    \cup {[found |-> TRUE, caps |-> c] :
            c \in {Capabilities} \cup {Capabilities \ {x} : x \in Capabilities}
                  \cup {{}}}

NoOp == [exists |-> FALSE, onReceive |-> "none", finished |-> FALSE,
         result |-> [object |-> NoObj, created |-> FALSE]]

NotWaited == [how |-> "no", finished |-> FALSE]
NotPolled == [asked |-> FALSE, complete |-> FALSE,
              result |-> [object |-> NoObj, created |-> FALSE]]

Init ==
    /\ req \in Requests
    /\ storage \in Storages
    /\ pc = "ServeHTTP"
    /\ action = "none"
    /\ obj = NoObj
    /\ out = "none"
    /\ op = NoOp
    /\ waited = NotWaited
    /\ polled = NotPolled
    /\ written = <<>>
    /\ httpCode = 0
    /\ calls = <<>>
    /\ linkLog = <<>>
    /\ backendObj = NoObj
    /\ glog = 0

\* ------------------------------------------------------- response emitters
Response(st, k, o, e) == [status |-> st, kind |-> k, body |-> o, err |-> e]

\* notFound(w, req); return http.StatusNotFound
notFound ==
    /\ written' = Append(written, Response(StatusNotFound, "notfound", NoObj, NoErr))
    /\ httpCode' = StatusNotFound
    /\ pc' = "done"

\* return errorJSON(err, h.codec, w)
errorJSON(e) ==
    /\ written' = Append(written, Response(e.code, "error", NoObj, e))
    /\ httpCode' = e.code
    /\ pc' = "done"

\* writeJSON(status, h.codec, object, w), and the status returned
writeJSON(st, o, ret) ==
    /\ written' = Append(written, Response(st, "object", o, NoErr))
    /\ httpCode' = ret
    /\ pc' = "done"

Errors(reason) == {[reason |-> reason, code |-> c] : c \in ErrCodes}
NewMethodNotSupported(a) ==
    [reason |-> "MethodNotSupported:" \o a, code |-> StatusMethodNotAllowed]

\* ------------------------------------------------------------------ worker
\* ServeHTTP leaving httpCode unassigned after notFound
ServeHTTP_noCode ==
    /\ pc = "ServeHTTP"
    /\ \E resolved \in BOOLEAN :
          IF ~resolved \/ ~storage.found
          THEN /\ written' = Append(written,
                                    Response(StatusNotFound, "notfound", NoObj, NoErr))
               /\ pc' = "done"
               /\ calls' = Append(calls, "notFound")
               /\ UNCHANGED httpCode
          ELSE /\ pc' = "handle"
               /\ calls' = Append(calls, "handleRESTStorage")
               /\ UNCHANGED <<written, httpCode>>
    /\ UNCHANGED <<req, storage, action, obj, out, op, waited, polled, linkLog, backendObj, glog>>

\* ServeHTTP, up to the call of handleRESTStorage
ServeHTTP ==
    /\ pc = "ServeHTTP"
    /\ \E resolved \in BOOLEAN :
          IF ~resolved \/ ~storage.found
          THEN /\ notFound
               /\ calls' = Append(calls, "notFound")
          ELSE /\ pc' = "handle"
               /\ calls' = Append(calls, "handleRESTStorage")
               /\ UNCHANGED <<written, httpCode>>
    /\ UNCHANGED <<req, storage, action, obj, out, op, waited, polled, linkLog, backendObj, glog>>

\* the switch on req.Method and len(parts) of handleRESTStorage
Route ==
    /\ pc = "handle"
    /\ LET a == RouteAction(req.method, Len(req.parts))
       IN  IF a = "none"
           THEN /\ notFound
                /\ calls' = Append(calls, "notFound")
                /\ UNCHANGED action
           ELSE /\ action' = a
                /\ pc' = IF a = "list" THEN "selectors" ELSE "capability"
                /\ UNCHANGED <<written, httpCode, calls>>
    /\ UNCHANGED <<req, storage, obj, out, op, waited, polled, linkLog, backendObj, glog>>

QueryGet(rq, key) == CHOOSE v \in SelectorValues \cup {"1s"} : <<key, v>> \in rq.url.query

\* list: labels.ParseSelector on the labels and fields query parameters
ParseSelectors ==
    /\ pc = "selectors"
    /\ IF QueryGet(req, "labels") = "bad"
       THEN /\ \E e \in Errors("SelectorParseError") : errorJSON(e)
            /\ calls' = calls \o <<"ParseSelector", "errorJSON">>
       ELSE IF QueryGet(req, "fields") = "bad"
       THEN /\ \E e \in Errors("SelectorParseError") : errorJSON(e)
            /\ calls' = calls \o <<"ParseSelector", "ParseSelector", "errorJSON">>
       ELSE /\ pc' = "capability"
            /\ calls' = calls \o <<"ParseSelector", "ParseSelector">>
            /\ UNCHANGED <<written, httpCode>>
    /\ UNCHANGED <<req, storage, action, obj, out, op, waited, polled, linkLog, backendObj, glog>>

\* storage.(RESTLister) and the four other capability assertions
CheckCapability ==
    /\ pc = "capability"
    /\ IF action \notin storage.caps
       THEN /\ errorJSON(NewMethodNotSupported(NotSupportedName(action)))
            /\ calls' = Append(calls, "errorJSON")
       ELSE /\ pc' = CASE action \in {"list", "get"} -> "call"
                       [] action \in {"create", "update"} -> "decode"
                       [] OTHER -> "admit"
            /\ UNCHANGED <<written, httpCode, calls>>
    /\ UNCHANGED <<req, storage, action, obj, out, op, waited, polled, linkLog, backendObj, glog>>

CandidateObject == Member("a", "")

\* DecodeBody with the return after a failed DecodeInto missing
DecodeBody_noReturn ==
    /\ pc = "decode"
    /\ \E outcome \in {"readError", "decodeError", "ok"} :
          CASE outcome = "readError" ->
                  /\ \E e \in Errors("ReadError") : errorJSON(e)
                  /\ calls' = calls \o <<"readBody", "errorJSON">>
                  /\ UNCHANGED obj
            [] outcome = "decodeError" ->
                  /\ \E e \in Errors("DecodeError") :
                         /\ written' = Append(written, Response(e.code, "error", NoObj, e))
                         /\ httpCode' = e.code
                  /\ obj' = CandidateObject
                  /\ pc' = "admit"
                  /\ calls' = calls \o <<"readBody", "New", "DecodeInto", "errorJSON">>
            [] OTHER ->
                  /\ obj' = CandidateObject
                  /\ pc' = "admit"
                  /\ calls' = calls \o <<"readBody", "New", "DecodeInto">>
                  /\ UNCHANGED <<written, httpCode>>
    /\ UNCHANGED <<req, storage, action, out, op, waited, polled, linkLog, backendObj, glog>>

\* create/update: readBody, storage.New, codec.DecodeInto
DecodeBody ==
    /\ pc = "decode"
    /\ \E outcome \in {"readError", "decodeError", "ok"} :
          CASE outcome = "readError" ->
                  /\ \E e \in Errors("ReadError") : errorJSON(e)
                  /\ calls' = calls \o <<"readBody", "errorJSON">>
                  /\ UNCHANGED obj
            [] outcome = "decodeError" ->
                  /\ \E e \in Errors("DecodeError") : errorJSON(e)
                  /\ calls' = calls \o <<"readBody", "New", "DecodeInto", "errorJSON">>
                  /\ UNCHANGED obj
            [] OTHER ->
                  /\ obj' = CandidateObject
                  /\ pc' = "admit"
                  /\ calls' = calls \o <<"readBody", "New", "DecodeInto">>
                  /\ UNCHANGED <<written, httpCode>>
    /\ UNCHANGED <<req, storage, action, out, op, waited, polled, linkLog, backendObj, glog>>

\* Admit with the return after errorJSON missing
Admit_noReturn ==
    /\ pc = "admit"
    /\ \E admitted \in BOOLEAN :
          IF ~admitted
          THEN /\ \E e \in Errors("AdmissionDenied") :
                     /\ written' = Append(written, Response(e.code, "error", NoObj, e))
                     /\ httpCode' = e.code
               /\ pc' = "call"
               /\ calls' = calls \o <<"Admit", "errorJSON">>
          ELSE /\ pc' = "call"
               /\ calls' = Append(calls, "Admit")
               /\ UNCHANGED <<written, httpCode>>
    /\ UNCHANGED <<req, storage, action, obj, out, op, waited, polled, linkLog, backendObj, glog>>

\* create/update/delete: h.admissionControl.Admit
Admit ==
    /\ pc = "admit"
    /\ \E admitted \in BOOLEAN :
          IF ~admitted
          THEN /\ \E e \in Errors("AdmissionDenied") : errorJSON(e)
               /\ calls' = calls \o <<"Admit", "errorJSON">>
          ELSE /\ pc' = "call"
               /\ calls' = Append(calls, "Admit")
               /\ UNCHANGED <<written, httpCode>>
    /\ UNCHANGED <<req, storage, action, obj, out, op, waited, polled, linkLog, backendObj, glog>>

\* list/get: lister.List / getter.Get
ReadCall ==
    /\ pc = "call"
    /\ action \in {"list", "get"}
    /\ \/ /\ \E e \in Errors("BackendError") : errorJSON(e)
          /\ calls' = calls \o <<BackendMethod(action), "errorJSON">>
          /\ UNCHANGED <<obj, backendObj>>
       \/ /\ \E o \in BackendObjects : obj' = o /\ backendObj' = o
          /\ pc' = "selflink"
          /\ calls' = Append(calls, BackendMethod(action))
          /\ UNCHANGED <<written, httpCode>>
    /\ UNCHANGED <<req, storage, action, out, op, waited, polled, linkLog, glog>>

\* ReadSelfLink with the error of setSelfLink ignored
ReadSelfLink_ignoreError ==
    /\ pc = "selflink"
    /\ \E f \in FailPoints(obj) :
          LET r == setSelfLink(obj, req, f)
          IN  /\ linkLog' = linkLog \o r.log
              /\ obj' = r.obj
              /\ pc' = "write"
              /\ calls' = Append(calls, "setSelfLink")
              /\ UNCHANGED <<written, httpCode>>
    /\ UNCHANGED <<req, storage, action, out, op, waited, polled, backendObj, glog>>

\* list/get: h.setSelfLink(list, req), in the request path
ReadSelfLink ==
    /\ pc = "selflink"
    /\ \E f \in FailPoints(obj) :
          LET r == setSelfLink(obj, req, f)
          IN  /\ linkLog' = linkLog \o r.log
              /\ IF r.err
                 THEN /\ \E e \in Errors("SelfLinkError") : errorJSON(e)
                      /\ calls' = calls \o <<"setSelfLink", "errorJSON">>
                      /\ UNCHANGED obj
                 ELSE /\ obj' = r.obj
                      /\ pc' = "write"
                      /\ calls' = Append(calls, "setSelfLink")
                      /\ UNCHANGED <<written, httpCode>>
    /\ UNCHANGED <<req, storage, action, out, op, waited, polled, backendObj, glog>>

\* list/get: writeJSON(http.StatusOK, ...) and the final return http.StatusOK
ReadWrite ==
    /\ pc = "write"
    /\ writeJSON(StatusOK, obj, StatusOK)
    /\ calls' = Append(calls, "writeJSON")
    /\ UNCHANGED <<req, storage, action, obj, out, op, waited, polled, linkLog, backendObj, glog>>

\* MutateCall with the return after the backend's error missing
MutateCall_noReturn ==
    /\ pc = "call"
    /\ action \in {"create", "update", "delete"}
    /\ \/ /\ \E e \in Errors("BackendError") :
                /\ written' = Append(written, Response(e.code, "error", NoObj, e))
                /\ httpCode' = e.code
          /\ out' = "pending"
          /\ pc' = "createOperation"
          /\ calls' = calls \o <<BackendMethod(action), "errorJSON">>
       \/ /\ out' = "pending"
          /\ pc' = "createOperation"
          /\ calls' = Append(calls, BackendMethod(action))
          /\ UNCHANGED <<written, httpCode>>
    /\ UNCHANGED <<req, storage, action, obj, op, waited, polled, linkLog, backendObj, glog>>

\* create/update/delete: creater.Create / updater.Update / deleter.Delete
MutateCall ==
    /\ pc = "call"
    /\ action \in {"create", "update", "delete"}
    /\ \/ /\ \E e \in Errors("BackendError") : errorJSON(e)
          /\ calls' = calls \o <<BackendMethod(action), "errorJSON">>
          /\ UNCHANGED out
       \/ /\ out' = "pending"
          /\ pc' = "createOperation"
          /\ calls' = Append(calls, BackendMethod(action))
          /\ UNCHANGED <<written, httpCode>>
    /\ UNCHANGED <<req, storage, action, obj, op, waited, polled, linkLog, backendObj, glog>>

\* createOperation: h.ops.NewOperation(out, onReceive), then op.WaitFor begins
createOperation ==
    /\ pc = "createOperation"
    /\ op' = [NoOp EXCEPT !.exists = TRUE, !.onReceive = HookOf(action)]
    /\ pc' = "WaitFor"
    /\ calls' = calls \o <<"NewOperation", "WaitFor">>
    /\ UNCHANGED <<req, storage, action, obj, out, waited, polled, written, httpCode,
                   linkLog, backendObj, glog>>

\* op.WaitFor returns because the operation finished
WaitForNotified ==
    /\ pc = "WaitFor"
    /\ op.finished
    /\ waited' = [how |-> "notified", finished |-> TRUE]
    /\ pc' = "finishReq"
    /\ UNCHANGED <<req, storage, action, obj, out, op, polled, written, httpCode, calls,
                   linkLog, backendObj, glog>>

\* op.WaitFor returns because the timeout elapsed
WaitForExpired ==
    /\ pc = "WaitFor"
    /\ waited' = [how |-> "expired", finished |-> op.finished]
    /\ pc' = "finishReq"
    /\ UNCHANGED <<req, storage, action, obj, out, op, polled, written, httpCode, calls,
                   linkLog, backendObj, glog>>

\* op.StatusOrResult()
StatusOrResult ==
    IF op.finished
    THEN [result |-> op.result, complete |-> TRUE]
    ELSE [result |-> [object |-> Placeholder, created |-> FALSE], complete |-> FALSE]

\* finishReq holding the response back until the operation is complete
finishReq_onlyWhenComplete ==
    /\ pc = "finishReq"
    /\ op.finished
    /\ LET sr == StatusOrResult
           status == finishStatus(sr.complete, sr.result.created, sr.result.object)
       IN  /\ writeJSON(status, sr.result.object, status)
           /\ polled' = [asked |-> TRUE, complete |-> sr.complete, result |-> sr.result]
    /\ calls' = calls \o <<"StatusOrResult", "writeJSON">>
    /\ UNCHANGED <<req, storage, action, obj, out, op, waited, linkLog, backendObj, glog>>

\* finishReq taking completeness from how WaitFor returned
finishReq_byWaitOutcome ==
    /\ pc = "finishReq"
    /\ LET sr == IF waited.how = "notified" THEN StatusOrResult
                 ELSE [result |-> [object |-> Placeholder, created |-> FALSE],
                       complete |-> FALSE]
           status == finishStatus(sr.complete, sr.result.created, sr.result.object)
       IN  /\ writeJSON(status, sr.result.object, status)
           /\ polled' = [asked |-> TRUE, complete |-> sr.complete, result |-> sr.result]
    /\ calls' = calls \o <<"StatusOrResult", "writeJSON">>
    /\ UNCHANGED <<req, storage, action, obj, out, op, waited, linkLog, backendObj, glog>>

\* finishReq taking the result as soon as the operation has received it
finishReq_readsReceived ==
    /\ pc = "finishReq"
    /\ LET sr == IF out = "received" THEN [result |-> op.result, complete |-> TRUE]
                 ELSE StatusOrResult
           status == finishStatus(sr.complete, sr.result.created, sr.result.object)
       IN  /\ writeJSON(status, sr.result.object, status)
           /\ polled' = [asked |-> TRUE, complete |-> sr.complete, result |-> sr.result]
    /\ calls' = calls \o <<"StatusOrResult", "writeJSON">>
    /\ UNCHANGED <<req, storage, action, obj, out, op, waited, linkLog, backendObj, glog>>

\* finishReq
finishReq ==
    /\ pc = "finishReq"
    /\ LET sr == StatusOrResult
           status == finishStatus(sr.complete, sr.result.created, sr.result.object)
       IN  /\ writeJSON(status, sr.result.object, status)
           /\ polled' = [asked |-> TRUE, complete |-> sr.complete, result |-> sr.result]
    /\ calls' = calls \o <<"StatusOrResult", "writeJSON">>
    /\ UNCHANGED <<req, storage, action, obj, out, op, waited, linkLog, backendObj, glog>>

\* ---------------------------------------------------------------- registry
\* the backend sends its RESTResult and the operation receives it: from here
\* on the hook is running on the object
Receive ==
    /\ op.exists
    /\ out = "pending"
    /\ \E o \in BackendObjects, c \in BOOLEAN :
          /\ op' = [op EXCEPT !.result = [object |-> o, created |-> c]]
          /\ backendObj' = o
    /\ out' = "received"
    /\ UNCHANGED <<req, storage, pc, action, obj, waited, polled, written, httpCode,
                   calls, linkLog, glog>>

\* the hook has run to its end on the received object; the operation stores
\* the result and marks itself finished
Deliver ==
    /\ op.exists
    /\ out = "received"
    /\ \E f \in HookFailPoints(op.onReceive, op.result.object) :
          LET r == curry(op.onReceive, op.result.object, req, f)
          IN  /\ op' = [op EXCEPT !.finished = TRUE, !.result.object = r.obj]
              /\ linkLog' = linkLog \o r.log
              /\ glog' = IF r.err THEN glog + 1 ELSE glog
    /\ out' = "delivered"
    /\ UNCHANGED <<req, storage, pc, action, obj, waited, polled, written, httpCode,
                   calls, backendObj>>

Next ==
    \/ ServeHTTP
    \/ Route
    \/ ParseSelectors
    \/ CheckCapability
    \/ DecodeBody
    \/ Admit
    \/ ReadCall
    \/ ReadSelfLink
    \/ ReadWrite
    \/ MutateCall
    \/ createOperation
    \/ WaitForNotified
    \/ WaitForExpired
    \/ finishReq
    \/ Receive
    \/ Deliver

\* the request's worker: everything but the registry's steps
Worker ==
    \/ ServeHTTP
    \/ Route
    \/ ParseSelectors
    \/ CheckCapability
    \/ DecodeBody
    \/ Admit
    \/ ReadCall
    \/ ReadSelfLink
    \/ ReadWrite
    \/ MutateCall
    \/ createOperation
    \/ WaitForNotified
    \/ WaitForExpired
    \/ finishReq

Spec == Init /\ [][Next]_vars

\* the worker keeps running and the timer of WaitFor fires; the backend need
\* never deliver
FairSpec == Spec /\ WF_vars(Worker)

\* ================================================================== claims
Done == pc = "done"
CallIndexes(names) == {i \in DOMAIN calls : calls[i] \in names}
Called(names) == CallIndexes(names) # {}
Mutating == {"create", "update", "delete"}

\* the routing table as the documentation of handleRESTStorage gives it
RoutingTable ==
    {<<"GET", 1>>, <<"GET", 2>>, <<"POST", 1>>, <<"PUT", 2>>, <<"DELETE", 2>>}
Routed == <<req.method, Len(req.parts)>> \in RoutingTable

\* C1: a request whose (method, number of path segments) is outside the routing
\* table never reaches a backend method, the body decoder or the admission gate,
\* and once handled its one response is 404 not-found.
C1_UnroutedIsNotFound ==
    ~Routed =>
        /\ ~Called(BackendMethods \cup {"readBody", "New", "DecodeInto", "Admit",
                                        "ParseSelector", "NewOperation"})
        /\ action = "none"
        /\ Done => /\ Len(written) = 1
                   /\ written[1].status = StatusNotFound
                   /\ written[1].kind = "notfound"
                   /\ httpCode = StatusNotFound

\* C1 witness: handleRESTStorage answered an unrouted PUT on a collection path
C1_Witness ==
    /\ Done
    /\ req.method = "PUT" /\ Len(req.parts) = 1
    /\ calls = <<"handleRESTStorage", "notFound">>
    /\ written[1].status = StatusNotFound

\* C2 (as stated): whenever the backend lacks the capability of the routed
\* action, the response is method-not-supported and no backend method ran,
\* whatever the query parameters and the body are.
C2_MissingCapabilityIsNotSupported ==
    (Done /\ action # "none" /\ action \notin storage.caps) =>
        /\ written[1].status = StatusMethodNotAllowed
        /\ ~Called(BackendMethods)

\* C3: in a mutating request the admission gate runs at most once, only after a
\* successful decode (create/update), and before any backend call; a request that
\* got as far as the backend call ran it exactly once; when Admit fails the
\* backend is never called, no operation is created and the response is the
\* admission error.
AdmitFailed ==
    \E i \in CallIndexes({"Admit"}) : i < Len(calls) /\ calls[i + 1] = "errorJSON"

C3_AdmissionOrder ==
    action \in Mutating =>
        /\ Cardinality(CallIndexes({"Admit"})) <= 1
        /\ \A i \in CallIndexes({"Admit"}) :
              /\ action \in {"create", "update"} =>
                    \E d \in CallIndexes({"DecodeInto"}) :
                        d < i /\ calls[d + 1] # "errorJSON"
              /\ \A b \in CallIndexes(BackendMethods) : i < b
        /\ Called(BackendMethods) \/ pc \in {"call", "createOperation", "WaitFor", "finishReq"}
              => Cardinality(CallIndexes({"Admit"})) = 1
        /\ AdmitFailed =>
              /\ ~Called(BackendMethods)
              /\ ~Called({"NewOperation"})
              /\ ~op.exists /\ out = "none"
              /\ Done
              /\ Len(written) = 1
              /\ written[1].kind = "error"
              /\ written[1].err.reason = "AdmissionDenied"
              /\ httpCode = written[1].status

\* C3 witness: an update was decoded, refused by the gate and answered with the
\* gate's error
C3_Witness ==
    /\ Done
    /\ action = "update"
    /\ calls = <<"handleRESTStorage", "readBody", "New", "DecodeInto", "Admit", "errorJSON">>
    /\ written[1].err.reason = "AdmissionDenied"

\* C4: the status finishReq writes depends only on (complete, created, embedded
\* code): not complete -> 202 with the placeholder; complete with a non-zero
\* embedded code -> that code; otherwise 201 when created and 200 when not; the
\* same for create, update and delete.
EmbeddedCode(o) == IF o.kind = "status" THEN o.code ELSE 0

C4_FinishStatus ==
    polled.asked =>
        /\ action \in Mutating
        /\ Len(written) = 1
        /\ written[1].kind = "object"
        /\ written[1].body = polled.result.object
        /\ httpCode = written[1].status
        /\ ~polled.complete =>
              written[1].status = StatusAccepted /\ written[1].body = Placeholder
        /\ (polled.complete /\ EmbeddedCode(polled.result.object) # 0) =>
              written[1].status = EmbeddedCode(polled.result.object)
        /\ (polled.complete /\ EmbeddedCode(polled.result.object) = 0
                /\ polled.result.created) =>
              written[1].status = StatusCreated
        /\ (polled.complete /\ EmbeddedCode(polled.result.object) = 0
                /\ ~polled.result.created) =>
              written[1].status = StatusOK

\* C4 witness: a complete delete whose result is created and carries code 409
C4_Witness ==
    /\ polled.asked /\ polled.complete
    /\ action = "delete"
    /\ polled.result.created
    /\ EmbeddedCode(polled.result.object) = 409
    /\ written[1].status = 409

C6_EventuallyResponds == <>(Done /\ Len(written) = 1)

\* C6 witness: the response is out while the backend result is still pending
C6_Witness ==
    /\ Done /\ Len(written) = 1
    /\ op.exists /\ out = "pending"

TopSets == Cardinality({k \in DOMAIN linkLog : linkLog[k].target = 0})

\* C7 (as stated): every response that carries an object (list, get, create,
\* update, delete; complete or accepted) has had its top-level self-link set
\* exactly once before it was written.
C7_RewrittenOnceOnEveryPath ==
    (Done /\ written[1].kind = "object") =>
        TopSets = 1 /\ written[1].body.selfLink.set

\* C7 (amended): the top-level self-link is set at most once and never after the
\* object was written; exactly once on a successful list or get and on a complete
\* create or update whose hook did not fail; never on a delete; an accepted
\* response carries the placeholder, written before any rewrite took place.
C7_RewrittenOncePerAction ==
    (Done /\ written[1].kind = "object") =>
        /\ TopSets <= 1
        /\ written[1].body.selfLink.set =>
              /\ TopSets = 1
              /\ \E k \in DOMAIN linkLog :
                    linkLog[k] = [target |-> 0, url |-> written[1].body.selfLink]
        /\ action \in {"list", "get"} =>
              TopSets = 1 /\ written[1].body.selfLink.set
        /\ (action \in {"create", "update"} /\ polled.complete /\ glog = 0) =>
              TopSets = 1 /\ written[1].body.selfLink.set
        /\ action = "delete" => TopSets = 0 /\ ~written[1].body.selfLink.set
        /\ (polled.asked /\ ~polled.complete) =>
              /\ written[1].body = Placeholder
              /\ ~op.finished => linkLog = <<>>

\* C7 witness: a complete delete returned the backend's object, never rewritten
C7_Witness ==
    /\ Done /\ action = "delete"
    /\ polled.complete
    /\ written[1].body.kind = "item"
    /\ written[1].body = backendObj
    /\ linkLog = <<>>

FullyLinked(o) ==
    /\ o.selfLink.set
    /\ \A i \in DOMAIN o.items : o.items[i].selfLink.set

ReadRewriteFailed ==
    \E i \in CallIndexes({"setSelfLink"}) : i < Len(calls) /\ calls[i + 1] = "errorJSON"

\* C8: in a list or get, a failure anywhere in the self-link rewrite makes the
\* whole request fail with an error response; an object is only ever written
\* with status ok when the object and all its members were rewritten.
C8_ReadRewriteFailureFailsRequest ==
    action \in {"list", "get"} =>
        /\ \A k \in DOMAIN written :
              written[k].kind = "object" =>
                  /\ written[k].status = StatusOK
                  /\ FullyLinked(written[k].body)
                  /\ Len(linkLog) = 1 + Len(written[k].body.items)
                  /\ ~ReadRewriteFailed
        /\ ReadRewriteFailed =>
              /\ Done
              /\ Len(written) = 1
              /\ written[1].kind = "error"
              /\ written[1].err.reason = "SelfLinkError"
              /\ written[1].status # StatusOK
              /\ httpCode = written[1].status

\* C8 witness: a list failed at its second member after the first was rewritten
C8_Witness ==
    /\ Done /\ action = "list"
    /\ Len(backendObj.items) = 2
    /\ Len(linkLog) = 2
    /\ written[1].err.reason = "SelfLinkError"

\* C9 (as stated): when the hook of a complete create or update fails, the
\* response still has the complete status and carries the backend's object
\* exactly as the backend produced it.
C9_FailedHookLeavesObjectUntouched ==
    (polled.asked /\ polled.complete /\ action \in {"create", "update"} /\ glog > 0) =>
        /\ written[1].kind = "object"
        /\ written[1].status \in {StatusOK, StatusCreated, EmbeddedCode(backendObj)}
        /\ written[1].body = backendObj

\* a collection on which the rewrite succeeded, and the collection before it
RewrittenLists ==
    (IF action \in {"list", "get"} /\ pc \in {"write", "done"}
        /\ obj.kind = "list" /\ obj.selfLink.set
     THEN {obj} ELSE {})
    \cup
    (IF op.finished /\ op.onReceive = "setSelfLink" /\ glog = 0
        /\ op.result.object.kind = "list"
     THEN {op.result.object} ELSE {})

LinksOf(i) == {k \in DOMAIN linkLog : linkLog[k].target = i}

\* C10: when setSelfLink succeeds on a collection, the members written back are
\* as many as were extracted and in the same order, and each member's self-link
\* was set exactly once, to canonical prefix + request path + its name.
C10_EveryMemberRewrittenOnce ==
    \A o \in RewrittenLists :
        /\ Len(o.items) = Len(backendObj.items)
        /\ \A i \in DOMAIN o.items :
              /\ o.items[i].name = backendObj.items[i].name
              /\ o.items[i].namespace = backendObj.items[i].namespace
              /\ o.items[i].selfLink.set
              /\ o.items[i].selfLink.path
                    = canonicalPrefix \o req.url.path \o <<o.items[i].name>>
              /\ Cardinality(LinksOf(i)) = 1
              /\ \A k \in LinksOf(i) : linkLog[k].url = o.items[i].selfLink
        /\ \A k \in DOMAIN linkLog : linkLog[k].target \in 0..Len(o.items)

\* C10 witness: a two-member list "b", "a" came back rewritten in that order
C10_Witness ==
    /\ Done /\ action = "list"
    /\ written[1].kind = "object"
    /\ Len(written[1].body.items) = 2
    /\ written[1].body.items[1].name = "b"
    /\ written[1].body.items[2].name = "a"
    /\ written[1].body.items[1].selfLink.path = <<"api", "v1", "foo", "b">>

\* the object a logged SetSelfLink call was made on
TargetOf(k) ==
    IF linkLog[k].target = 0 THEN backendObj ELSE backendObj.items[linkLog[k].target]
RequestQueryKeys == {"timeout", "labels", "fields"}

\* C11: for the top-level object and for every member, the self-link that was
\* set has the query namespace=<the object's namespace> exactly when that
\* namespace is not empty and the request path does not start with "ns"; it
\* has no other query parameter, none of the request's, and no fragment.
C11_NamespaceQueryOnly ==
    \A k \in DOMAIN linkLog :
        LET u == linkLog[k].url
            o == TargetOf(k)
        IN  /\ u.fragment = ""
            /\ u.query \cap req.url.query = {}
            /\ \A q \in u.query : q[1] \notin RequestQueryKeys
            /\ (o.namespace # "" /\ req.url.path[1] # "ns")
                  => u.query = {<<"namespace", o.namespace>>}
            /\ ~(o.namespace # "" /\ req.url.path[1] # "ns") => u.query = {}

\* C11 witness: in one list, answered on a path without "ns", a member in
\* namespace n1 got the parameter and a member without namespace got none,
\* while the request had a timeout, selectors and a fragment
C11_Witness ==
    /\ Done /\ action = "list" /\ written[1].kind = "object"
    /\ req.url.path[1] # "ns"
    /\ req.url.fragment = "top"
    /\ <<"timeout", "1s">> \in req.url.query
    /\ Len(written[1].body.items) = 2
    /\ written[1].body.items[1].namespace = "n1"
    /\ written[1].body.items[1].selfLink.query = {<<"namespace", "n1">>}
    /\ written[1].body.items[2].namespace = ""
    /\ written[1].body.items[2].selfLink.query = {}

\* a name as a path segment: an empty name adds nothing to the path
NameSegment(n) == IF n = "" THEN <<>> ELSE <<n>>

C13_NotSupportedNamesTheAction ==
    (Done /\ written[1].kind = "error"
          /\ written[1].status = StatusMethodNotAllowed) =>
        /\ action \in Capabilities /\ action \notin storage.caps
        /\ written[1].err.reason = "MethodNotSupported:" \o action

\* C14: a request has no response while its worker runs and exactly one once
\* the worker has returned, on every path; the worker never stops without
\* one and never writes after it; the code handed to the monitor is the
\* status that was written.
C14_OneResponseAndItsCode ==
    /\ Len(written) <= 1
    /\ Done <=> Len(written) = 1
    /\ ~Done => httpCode = 0 /\ ENABLED Worker
    /\ Done => /\ httpCode = written[1].status
               /\ ~ENABLED Worker
               /\ written[1].kind = "object" <=> written[1].body # NoObj
               /\ written[1].kind = "error" <=> written[1].err # NoErr

\* C14 witness: a create aborted by a decode error answered 400 once, and 400
\* is the code reported
C14_Witness ==
    /\ Done /\ action = "create"
    /\ written = <<Response(400, "error", NoObj, [reason |-> "DecodeError", code |-> 400])>>
    /\ httpCode = 400

\* the body could not be read or could not be decoded
DecodeFailed ==
    \E i \in CallIndexes({"readBody", "DecodeInto"}) :
        i < Len(calls) /\ calls[i + 1] = "errorJSON"

\* C15: no GET request (list, get or unrouted) reaches the admission gate, and
\* a create or update whose body fails to decode has ended with the decode
\* error: the admission gate and the backend were never called and no
\* operation exists.
C15_NoAdmissionOnReadOrBadBody ==
    /\ (req.method = "GET" \/ action \in {"list", "get"}) => ~Called({"Admit"})
    /\ DecodeFailed =>
          /\ action \in {"create", "update"}
          /\ Done
          /\ ~Called({"Admit"})
          /\ ~Called(BackendMethods)
          /\ ~op.exists /\ out = "none"
          /\ Len(written) = 1
          /\ written[1].kind = "error"
          /\ written[1].err.reason \in {"ReadError", "DecodeError"}

\* C15 witness: an update whose body did not decode, ended by the error
C15_Witness ==
    /\ action = "update"
    /\ calls = <<"handleRESTStorage", "readBody", "New", "DecodeInto", "errorJSON">>
    /\ written[1].err.reason = "DecodeError"

MethodTable ==
    {<<"GET", 1, "List">>, <<"GET", 2, "Get">>, <<"POST", 1, "Create">>,
     <<"PUT", 2, "Update">>, <<"DELETE", 2, "Delete">>}

\* the request ended in routing, the capability check, selector parsing,
\* reading or decoding the body, or admission
AbortedByCheck ==
    /\ Done
    /\ \/ written[1].kind = "notfound"
       \/ /\ written[1].kind = "error"
          /\ \/ written[1].status = StatusMethodNotAllowed
             \/ written[1].err.reason \in {"SelectorParseError", "ReadError",
                                           "DecodeError", "AdmissionDenied"}

\* C18: a request calls at most one backend method, and only the one the
\* routing table gives for its method and arity; a request that got past all
\* the checks has called exactly one; a request ended by a check called none.
C18_OneBackendMethod ==
    /\ Cardinality(CallIndexes(BackendMethods)) <= 1
    /\ \A i \in CallIndexes(BackendMethods) :
          <<req.method, Len(req.parts), calls[i]>> \in MethodTable
    /\ AbortedByCheck => ~Called(BackendMethods)
    /\ (Done /\ ~AbortedByCheck) => Cardinality(CallIndexes(BackendMethods)) = 1
    /\ pc \in {"selflink", "write", "createOperation", "WaitFor", "finishReq"}
          => Cardinality(CallIndexes(BackendMethods)) = 1

\* C18 witness: an update on a path with "ns" reached the backend's Update,
\* once, and was answered
C18_Witness ==
    /\ Done /\ req.method = "PUT" /\ req.url.path[1] = "ns"
    /\ Cardinality(CallIndexes({"Update"})) = 1
    /\ ~Called(BackendMethods \ {"Update"})
    /\ polled.complete

\* the backend's Create, Update or Delete returned an error
MutateFailed ==
    \E i \in CallIndexes({"Create", "Update", "Delete"}) :
        i < Len(calls) /\ calls[i + 1] = "errorJSON"

\* C19: when the backend's Create, Update or Delete returns an error, the
\* request has ended with that error as its one response: there is no
\* operation, no wait, no hook registered or run, nothing to deliver, and the
\* status is none of created, ok, accepted.
C19_BackendErrorAborts ==
    MutateFailed =>
        /\ action \in Mutating
        /\ Done
        /\ Len(written) = 1
        /\ written[1].kind = "error"
        /\ written[1].err.reason = "BackendError"
        /\ written[1].status = written[1].err.code
        /\ written[1].status \notin {StatusCreated, StatusOK, StatusAccepted}
        /\ httpCode = written[1].status
        /\ op = NoOp /\ out = "none"
        /\ ~ENABLED Receive /\ ~ENABLED Deliver
        /\ waited = NotWaited /\ polled = NotPolled
        /\ ~Called({"NewOperation", "WaitFor", "StatusOrResult", "writeJSON"})
        /\ linkLog = <<>> /\ glog = 0

\* C19 witness: the backend's Delete answered an error 409 after admission
C19_Witness ==
    /\ action = "delete"
    /\ calls = <<"handleRESTStorage", "Admit", "Delete", "errorJSON">>
    /\ written[1].status = 409
    /\ written[1].err.reason = "BackendError"

\* an object with every self-link taken away: its own and its members'
Strip(o) ==
    [o EXCEPT !.selfLink = NoLink,
              !.items = [i \in DOMAIN o.items |-> [o.items[i] EXCEPT !.selfLink = NoLink]]]

\* the objects a rewrite has been applied to, whether it succeeded or failed
\* part-way
Rewritten ==
    (IF action \in {"list", "get"} /\ backendObj # NoObj THEN {obj} ELSE {})
    \cup (IF out \in {"received", "delivered"} THEN {op.result.object} ELSE {})
    \cup {written[k].body : k \in {j \in DOMAIN written :
                                       /\ written[j].kind = "object"
                                       /\ written[j].body # Placeholder}}

C20_FrameOfState ==
    /\ \A o \in Rewritten : Strip(o) = Strip(backendObj)
    /\ Strip(backendObj) = backendObj
    /\ \A k1, k2 \in DOMAIN linkLog :
          (TargetOf(k1) = TargetOf(k2) /\ (linkLog[k1].target = 0 <=> linkLog[k2].target = 0))
              => linkLog[k1].url = linkLog[k2].url

====
